---- MODULE Spec2Model ----
(***************************************************************************)
(* A model of the device bootstrap and streaming client scripts:          *)
(*   scripts/get_dev_jwt.py          get_dev_jwt_token, main               *)
(*   scripts/sample_jwt_sse_chat.py  load_jwt_token, stream_chat_completion*)
(*                                   main                                  *)
(* Text (HTTP bodies, the session file, SSE lines) is a sequence of        *)
(* tokens; json.dump / json.load / response.json() are modelled as a       *)
(* serialiser and a recursive-descent parser over such sequences (white    *)
(* space, which json.dump(indent=2) adds and json.load skips, is not       *)
(* represented).  Python values are tagged records.                        *)
(***************************************************************************)
EXTENDS Integers, Sequences, FiniteSets, TLC

\* ------------------------------------------------------------ bounds
\* Invocations of get_dev_jwt.py in one behaviour (the token file starts
\* with any of InitialFiles, a record of an earlier run among them).
MaxRuns == 2
\* Longest SSE body, in lines.
MaxLines == 3

\* ------------------------------------------------------ Python values
PNone == [t |-> "None"]
PBool(b) == [t |-> "bool", b |-> b]
PInt(n) == [t |-> "int", n |-> n]
PStr(s) == [t |-> "str", s |-> s]
PList(l) == [t |-> "list", l |-> l]
\* A dict is its items in insertion order, keys unique; a key is a string
\* (a sequence of characters).
PDict(d) == [t |-> "dict", d |-> d]

\* Python truthiness, as used by `if not access_token` and `if content`.
Truthy(v) ==
    CASE v.t = "None" -> FALSE
      [] v.t = "bool" -> v.b
      [] v.t = "int" -> v.n # 0
      [] v.t = "str" -> v.s # <<>>
      [] v.t = "list" -> v.l # <<>>
      [] v.t = "dict" -> v.d # <<>>

\* A one-character-class string such as a key name: one atom.
S(name) == <<name>>

HasKey(d, k) == \E i \in 1..Len(d) : d[i].k = k
Lookup(d, k) == d[CHOOSE i \in 1..Len(d) : d[i].k = k].v
\* d[k] = v of a dict under construction: a repeated key keeps its place
\* and takes the later value.
DictSet(d, k, v) ==
    IF HasKey(d, k)
    THEN [i \in 1..Len(d) |-> IF d[i].k = k THEN [k |-> k, v |-> v] ELSE d[i]]
    ELSE Append(d, [k |-> k, v |-> v])

\* The result of an expression that may raise.
Ok(v) == [exc |-> "none", v |-> v]
Raise(e) == [exc |-> e, v |-> PNone]

\* obj.get(key, default): a method of dict only.
DictGet(obj, k, default) ==
    IF obj.t # "dict" THEN Raise("AttributeError")
    ELSE IF HasKey(obj.d, k) THEN Ok(Lookup(obj.d, k)) ELSE Ok(default)

\* obj[key] with a string key.
GetItemStr(obj, k) ==
    IF obj.t = "dict"
    THEN IF HasKey(obj.d, k) THEN Ok(Lookup(obj.d, k)) ELSE Raise("KeyError")
    ELSE Raise("TypeError")

\* obj[i] with an integer index i >= 0 (Python counts from 0).
GetItemInt(obj, i) ==
    CASE obj.t = "list" ->
           IF i + 1 <= Len(obj.l) THEN Ok(obj.l[i + 1]) ELSE Raise("IndexError")
      [] obj.t = "str" ->
           IF i + 1 <= Len(obj.s) THEN Ok(PStr(<<obj.s[i + 1]>>)) ELSE Raise("IndexError")
      [] obj.t = "dict" -> Raise("KeyError")
      [] OTHER -> Raise("TypeError")

\* ---------------------------------------------------------------- JSON
Q == "\""
\* The integers that occur in the modelled texts.
Numbers == {-1, 0, 1, 5, 42, 60, 3600}
NumTokens == {ToString(n) : n \in Numbers}
ParseNum(tok) == CHOOSE n \in Numbers : ToString(n) = tok

RECURSIVE Dump(_), DumpItems(_), DumpMembers(_)
\* json.dumps(v) as a token sequence.
Dump(v) ==
    CASE v.t = "None" -> <<"null">>
      [] v.t = "bool" -> IF v.b THEN <<"true">> ELSE <<"false">>
      [] v.t = "int" -> <<ToString(v.n)>>
      [] v.t = "str" -> <<Q>> \o v.s \o <<Q>>
      [] v.t = "list" -> <<"[">> \o DumpItems(v.l) \o <<"]">>
      [] v.t = "dict" -> <<"{">> \o DumpMembers(v.d) \o <<"}">>
DumpItems(l) ==
    IF l = <<>> THEN <<>>
    ELSE Dump(l[1]) \o (IF Len(l) > 1 THEN <<",">> \o DumpItems(Tail(l)) ELSE <<>>)
DumpMembers(d) ==
    IF d = <<>> THEN <<>>
    ELSE <<Q>> \o d[1].k \o <<Q, ":">> \o Dump(d[1].v)
         \o (IF Len(d) > 1 THEN <<",">> \o DumpMembers(Tail(d)) ELSE <<>>)

\* A parse result: the value and the index of the first token after it.
POk(v, i) == [ok |-> TRUE, v |-> v, i |-> i]
PFail == [ok |-> FALSE, v |-> PNone, i |-> 0]

RECURSIVE NextQuote(_, _)
\* The index of the first quote at or after i, 0 if there is none.
NextQuote(toks, i) ==
    IF i > Len(toks) THEN 0
    ELSE IF toks[i] = Q THEN i ELSE NextQuote(toks, i + 1)
\* A string's characters start at i; it ends at the next quote.
ParseString(toks, i) ==
    LET j == NextQuote(toks, i)
    IN IF j = 0 THEN PFail ELSE POk(PStr(SubSeq(toks, i, j - 1)), j + 1)

RECURSIVE ParseValue(_, _), ParseItems(_, _, _), ParseMembers(_, _, _)
ParseValue(toks, i) ==
    IF i > Len(toks) THEN PFail
    ELSE CASE toks[i] = "null" -> POk(PNone, i + 1)
           [] toks[i] = "true" -> POk(PBool(TRUE), i + 1)
           [] toks[i] = "false" -> POk(PBool(FALSE), i + 1)
           [] toks[i] \in NumTokens -> POk(PInt(ParseNum(toks[i])), i + 1)
           [] toks[i] = Q -> ParseString(toks, i + 1)
           [] toks[i] = "[" ->
                IF i + 1 <= Len(toks) /\ toks[i + 1] = "]"
                THEN POk(PList(<<>>), i + 2)
                ELSE ParseItems(toks, i + 1, <<>>)
           [] toks[i] = "{" ->
                IF i + 1 <= Len(toks) /\ toks[i + 1] = "}"
                THEN POk(PDict(<<>>), i + 2)
                ELSE ParseMembers(toks, i + 1, <<>>)
           [] OTHER -> PFail
\* The items of a list from i on, acc those already parsed.
ParseItems(toks, i, acc) ==
    LET r == ParseValue(toks, i)
    IN IF ~r.ok \/ r.i > Len(toks) THEN PFail
       ELSE CASE toks[r.i] = "," -> ParseItems(toks, r.i + 1, Append(acc, r.v))
              [] toks[r.i] = "]" -> POk(PList(Append(acc, r.v)), r.i + 1)
              [] OTHER -> PFail
\* The members of an object from i on, acc those already parsed.
ParseMembers(toks, i, acc) ==
    IF i > Len(toks) \/ toks[i] # Q THEN PFail
    ELSE LET key == ParseString(toks, i + 1)
         IN IF ~key.ok \/ key.i > Len(toks) \/ toks[key.i] # ":" THEN PFail
            ELSE LET r == ParseValue(toks, key.i + 1)
                 IN IF ~r.ok \/ r.i > Len(toks) THEN PFail
                    ELSE CASE toks[r.i] = "," ->
                                ParseMembers(toks, r.i + 1, DictSet(acc, key.v.s, r.v))
                           [] toks[r.i] = "}" ->
                                POk(PDict(DictSet(acc, key.v.s, r.v)), r.i + 1)
                           [] OTHER -> PFail

\* json.loads(text): one value and nothing after it, else JSONDecodeError.
Loads(toks) ==
    LET r == ParseValue(toks, 1)
    IN IF r.ok /\ r.i = Len(toks) + 1 THEN Ok(r.v) ELSE Raise("JSONDecodeError")


\* ------------------------------------------------------- configuration
\* get_dev_jwt.py DEFAULT_OUTPUT and sample_jwt_sse_chat.py TOKEN_FILE name
\* the same file; -o may name another.
DEFAULT_OUTPUT == "test_jwt_token.json"
TOKEN_FILE == "test_jwt_token.json"
Paths == {DEFAULT_OUTPUT, "custom_token.json"}
DEFAULT_EMAIL == S("testing@percolationlabs.ai")
Emails == {DEFAULT_EMAIL, <<"s", "@", "g">>}
\* os.getenv("P8FS_DEV_TOKEN_SECRET"): unset, set to "", set to a secret.
EnvValues == {PNone, PStr(<<>>), PStr(S("p8fs-dev"))}
\* Ed25519PrivateKey.generate(): the key drawn.
KeyIds == {1}
\* datetime.now().isoformat()
Times == {S("2025-01-01T00:00:00")}
Procs == {1, 2}

\* The three encodings of the device key pair k.
private_key_pem(k) == PStr(<<"PKCS8", ToString(k)>>)
public_key_pem(k) == PStr(<<"SPKI", "pub", ToString(k)>>)
public_key_b64(k) == PStr(<<"b64", "pub", ToString(k)>>)

\* ------------------------------------------------ registration endpoint
Statuses == {200, 201, 401}
Item(k, v) == [k |-> S(k), v |-> v]
\* Response bodies the registration endpoint may send (as text).
TokenBodies ==
    { Dump(PDict(<<Item("access_token", PStr(<<"a">>))>>)),
      Dump(PDict(<<Item("access_token", PStr(<<"b", "b">>)),
                   Item("refresh_token", PStr(<<"r">>)),
                   Item("expires_in", PInt(60)),
                   Item("tenant_id", PStr(S("tenant-1")))>>)),
      Dump(PDict(<<Item("access_token", PStr(<<"a">>)),
                   Item("expires_in", PInt(-1)),
                   Item("tenant_id", PNone)>>)),
      Dump(PDict(<<Item("access_token", PInt(5)),
                   Item("expires_in", PNone)>>)) }
NoTokenBodies ==
    { Dump(PDict(<<>>)),
      Dump(PDict(<<Item("access_token", PStr(<<>>)), Item("tenant_id", PStr(S("tenant-1")))>>)),
      Dump(PDict(<<Item("access_token", PNone)>>)) }
BadBodies ==
    { <<>>, <<"{", Q, "access_token", Q, ":">>, Dump(PList(<<PStr(<<"a">>)>>)) }
Bodies == TokenBodies \cup NoTokenBodies \cup BadBodies
\* What awaiting client.post(...) can end in: a response, or an exception
\* raised at the await.
\* The body of a response that is not a 200 is only printed: two bodies,
\* one of them a body that would carry a token, stand for them all.
Responses ==
    [status_code : {200}, text : Bodies]
        \cup [status_code : Statuses \ {200},
              text : {Dump(PDict(<<Item("access_token", PStr(<<"a">>))>>)),
                      Dump(PDict(<<Item("error", PStr(S("denied")))>>))}]
TransportErrors == {"ConnectError", "ReadTimeout"}
NoResponse == [status_code |-> 0, text |-> <<>>]
Cancellations == {"CancelledError"}

\* ---------------------------------------------------------- file system
\* A file: whether it exists and its text.  Two more fields serve the
\* statements about what the scripts persist: saved, whether get_dev_jwt.py
\* has opened the file for writing, and record, the token_info whose dump
\* to the file ran to its end since (PNone if none did).
NoFile == [exists |-> FALSE, text |-> <<>>, saved |-> FALSE, record |-> PNone]
File(text) == [exists |-> TRUE, text |-> text, saved |-> FALSE, record |-> PNone]

\* open(path, 'w'): the file exists afterwards and is empty.
\* Mutant: the file is opened without truncation (mode 'r+').
OpenForWrite_NoTruncate(file) == [file EXCEPT !.exists = TRUE, !.saved = TRUE, !.record = PNone]
OpenForWrite(file) ==
    [exists |-> TRUE, text |-> <<>>, saved |-> TRUE, record |-> PNone]
\* f.write(data) at offset 0 of a file opened with 'w': data replaces the
\* first Len(data) tokens and what lies beyond them stays.
WriteAt0(file, data) ==
    [file EXCEPT !.text = data \o SubSeq(file.text, Len(data) + 1, Len(file.text))]
\* How much of the text reaches the file when the write fails part-way:
\* nothing, or all but the last token.
PartialLens(text) == {0, Len(text) - 1}

\* Contents the token file may hold before any script runs.
OldRecord ==
    PDict(<<Item("access_token", PStr(<<"o", "l", "d", "e", "r">>)),
            Item("refresh_token", PStr(<<"o", "l", "d", "e", "r">>)),
            Item("token_type", PStr(S("Bearer"))),
            Item("expires_in", PInt(3600)),
            Item("tenant_id", PStr(<<"tenant", "-", "old", "-", "0">>)),
            Item("created_at", PStr(<<"2024", "-", "01", "-", "01", "T", "00">>)),
            Item("email", PStr(<<"o", "l", "d", "@", "example", ".", "org">>)),
            Item("device_keys", PDict(<<
                Item("private_key_pem", PStr(<<"PKCS8", "0", "=">>)),
                Item("public_key_pem", PStr(<<"SPKI", "pub", "0", "=">>)),
                Item("public_key_b64", PStr(<<"b64", "pub", "0", "=">>))>>))>>)
InitialFiles ==
    { NoFile, File(<<>>), File(<<"not", "json">>),
      File(Dump(PList(<<PStr(<<"a">>)>>))),
      File(Dump(PDict(<<Item("email", PStr(DEFAULT_EMAIL))>>))),
      File(Dump(PDict(<<Item("access_token", PStr(<<>>))>>))),
      File(Dump(OldRecord)) }

\* --------------------------------------------------------------- state
VARIABLES
    fs,     \* the file system: path -> file
    gdj,    \* the get_dev_jwt.py processes: their locals and position
    smp,    \* the sample_jwt_sse_chat.py process
    runs    \* invocations of get_dev_jwt.py so far
vars == <<fs, gdj, smp, runs>>

GBlank ==
    [pc |-> "none", email |-> <<>>, output_file |-> "", dev_token |-> PNone,
     key |-> 0, response |-> NoResponse, token_data |-> PNone,
     access_token |-> PNone, before |-> NoFile,
     token_info |-> PNone, result |-> PNone, err |-> "", posts |-> 0,
     opens |-> 0, exit_code |-> -1]
SBlank ==
    [pc |-> "none", token |-> PNone, token_data |-> PNone, err |-> "",
     exit_code |-> -1, status_code |-> 0, lines |-> <<>>, pos |-> 0,
     out |-> <<>>, exc |-> "", complete |-> FALSE]

\* ------------------------------------------- get_dev_jwt.py: the code
\* Mutant: `if dev_token is None`.
NoDevToken_IsNone(dev_token) == dev_token = PNone
\* `if not dev_token` (line 54)
NoDevToken(dev_token) == ~Truthy(dev_token)
\* Mutant: any 2xx status passes.
GdjStatusOk_Any2xx(status_code) == status_code \in 200..299
\* `if response.status_code != 200` (line 103), negated
GdjStatusOk(status_code) == status_code = 200
\* Mutant: `if access_token is None`.
GdjNoAccessToken_IsNone(access_token) == access_token = PNone
\* `if not access_token` (line 110)
GdjNoAccessToken(access_token) == ~Truthy(access_token)

\* Lines 103-112: what the response leads to.  err = "" is success.
HandleResponse(response) ==
    IF ~GdjStatusOk(response.status_code)
    THEN [err |-> "RequestFailed", token_data |-> PNone, access_token |-> PNone]
    ELSE LET json == Loads(response.text)
         IN IF json.exc # "none"
            THEN [err |-> json.exc, token_data |-> PNone, access_token |-> PNone]
            ELSE LET got == DictGet(json.v, S("access_token"), PNone)
                 IN IF got.exc # "none"
                    THEN [err |-> got.exc, token_data |-> PNone, access_token |-> PNone]
                    ELSE IF GdjNoAccessToken(got.v)
                    THEN [err |-> "NoAccessToken", token_data |-> PNone,
                          access_token |-> PNone]
                    ELSE [err |-> "", token_data |-> json.v, access_token |-> got.v]

\* Mutant: the record's access_token is taken from the wrong field.
BuildTokenInfo_WrongField(access_token, token_data, email, k, now) ==
    PDict(<<Item("access_token", DictGet(token_data, S("refresh_token"), PNone).v),
            Item("refresh_token", DictGet(token_data, S("refresh_token"), PNone).v),
            Item("token_type", PStr(S("Bearer"))),
            Item("expires_in", DictGet(token_data, S("expires_in"), PInt(3600)).v),
            Item("tenant_id", DictGet(token_data, S("tenant_id"), PNone).v),
            Item("created_at", PStr(now)),
            Item("email", PStr(email)),
            Item("device_keys", PDict(<<
                Item("private_key_pem", private_key_pem(k)),
                Item("public_key_pem", public_key_pem(k)),
                Item("public_key_b64", public_key_b64(k))>>))>>)
\* Lines 119-132.
BuildTokenInfo(access_token, token_data, email, k, now) ==
    PDict(<<Item("access_token", access_token),
            Item("refresh_token", DictGet(token_data, S("refresh_token"), PNone).v),
            Item("token_type", PStr(S("Bearer"))),
            Item("expires_in", DictGet(token_data, S("expires_in"), PInt(3600)).v),
            Item("tenant_id", DictGet(token_data, S("tenant_id"), PNone).v),
            Item("created_at", PStr(now)),
            Item("email", PStr(email)),
            Item("device_keys", PDict(<<
                Item("private_key_pem", private_key_pem(k)),
                Item("public_key_pem", public_key_pem(k)),
                Item("public_key_b64", public_key_b64(k))>>))>>)

\* `return value` of get_dev_jwt_token, err being the diagnostic printed.
Return(g, value, err) == [g EXCEPT !.pc = "returned", !.result = value, !.err = err]

\* The scripts are run one after another: a script starts when no other
\* is between its start and its end (the streaming script may be waiting
\* for its stream).  A process that has ended leaves nothing but the files:
\* its record here is kept until the next script starts.
NoScriptBetweenSteps ==
    /\ \A q \in Procs : gdj[q].pc \in {"none", "exit"}
    /\ smp.pc \in {"none", "exit", "stream"}

\* main, lines 144-157: one invocation of the script begins.
GdjMain(p) ==
    /\ NoScriptBetweenSteps
    /\ runs < MaxRuns
    /\ \E e \in Emails, o \in Paths :
         gdj' = [gdj EXCEPT ![p] = [GBlank EXCEPT !.pc = "env", !.email = e,
                                                  !.output_file = o,
                                                  !.before = fs[o]]]
    /\ smp' = SBlank
    /\ runs' = runs + 1
    /\ UNCHANGED fs

\* Lines 53-57.
GdjGetEnv(p) ==
    /\ gdj[p].pc = "env"
    /\ \E v \in EnvValues :
         gdj' = [gdj EXCEPT ![p] =
                    IF NoDevToken(v)
                    THEN Return([@ EXCEPT !.dev_token = v], PNone, "SecretNotSet")
                    ELSE [@ EXCEPT !.pc = "keys", !.dev_token = v]]
    /\ UNCHANGED <<fs, smp, runs>>

\* Lines 60-79.
GdjGenerateKeys(p) ==
    /\ gdj[p].pc = "keys"
    /\ \E k \in KeyIds : gdj' = [gdj EXCEPT ![p].pc = "post", ![p].key = k]
    /\ UNCHANGED <<fs, smp, runs>>

\* Lines 82-101: the POST is sent and the coroutine suspends.
GdjPost(p) ==
    /\ gdj[p].pc = "post"
    /\ gdj' = [gdj EXCEPT ![p].pc = "await", ![p].posts = @ + 1]
    /\ UNCHANGED <<fs, smp, runs>>

\* Lines 103-112: the response arrives.
GdjResponse(p) ==
    /\ gdj[p].pc = "await"
    /\ \E response \in Responses :
         LET h == HandleResponse(response)
         IN gdj' = [gdj EXCEPT ![p] =
                       IF h.err # ""
                       THEN Return([@ EXCEPT !.response = response], PNone, h.err)
                       ELSE [@ EXCEPT !.pc = "build", !.response = response,
                                      !.token_data = h.token_data,
                                      !.access_token = h.access_token]]
    /\ UNCHANGED <<fs, smp, runs>>

\* Mutant: a transport error is answered by sending the request again.
GdjTransportError_Retry(p) ==
    /\ gdj[p].pc = "await"
    /\ \E e \in TransportErrors : gdj' = [gdj EXCEPT ![p].pc = "post", ![p].err = e]
    /\ UNCHANGED <<fs, smp, runs>>
\* Lines 114-116: the await raises an Exception (connection, timeout).
GdjTransportError(p) ==
    /\ gdj[p].pc = "await"
    /\ \E e \in TransportErrors : gdj' = [gdj EXCEPT ![p] = Return(@, PNone, e)]
    /\ UNCHANGED <<fs, smp, runs>>

\* The await is cancelled: CancelledError is a BaseException, which line
\* 114 does not catch; it leaves get_dev_jwt_token and ends the process.
GdjCancelled(p) ==
    /\ gdj[p].pc = "await"
    /\ \E e \in Cancellations :
         gdj' = [gdj EXCEPT ![p].pc = "exit", ![p].err = e, ![p].exit_code = 1]
    /\ UNCHANGED <<fs, smp, runs>>

\* Lines 119-132.
GdjBuild(p) ==
    /\ gdj[p].pc = "build"
    /\ \E now \in Times :
         gdj' = [gdj EXCEPT ![p].pc = "open",
                            ![p].token_info =
                                BuildTokenInfo(gdj[p].access_token, gdj[p].token_data,
                                               gdj[p].email, gdj[p].key, now)]
    /\ UNCHANGED <<fs, smp, runs>>

\* Line 135: open(output_file, 'w') succeeds.
GdjOpen(p) ==
    /\ gdj[p].pc = "open"
    /\ fs' = [fs EXCEPT ![gdj[p].output_file] = OpenForWrite(@)]
    /\ gdj' = [gdj EXCEPT ![p].pc = "dump", ![p].opens = @ + 1]
    /\ UNCHANGED <<smp, runs>>

\* Line 135 raises (directory missing, permission denied): lines 139-141.
GdjOpenFails(p) ==
    /\ gdj[p].pc = "open"
    /\ gdj' = [gdj EXCEPT ![p] = Return(@, PNone, "FailedToSave")]
    /\ UNCHANGED <<fs, smp, runs>>

\* Lines 136-138: the record is written, the file closed.
GdjDump(p) ==
    /\ gdj[p].pc = "dump"
    /\ fs' = [fs EXCEPT ![gdj[p].output_file] =
                 [WriteAt0(@, Dump(gdj[p].token_info))
                    EXCEPT !.record = gdj[p].token_info]]
    /\ gdj' = [gdj EXCEPT ![p] = Return(@, gdj[p].token_info, "")]
    /\ UNCHANGED <<smp, runs>>

\* Mutant: the handler only prints, and the record is returned after it.
GdjDumpFails_ReturnsRecord(p) ==
    /\ gdj[p].pc = "dump"
    /\ \E n \in PartialLens(Dump(gdj[p].token_info)) :
         fs' = [fs EXCEPT ![gdj[p].output_file] =
                    WriteAt0(@, SubSeq(Dump(gdj[p].token_info), 1, n))]
    /\ gdj' = [gdj EXCEPT ![p] = Return(@, gdj[p].token_info, "FailedToSave")]
    /\ UNCHANGED <<smp, runs>>
\* Line 136 raises after part of the text was written: lines 139-141.
GdjDumpFails(p) ==
    /\ gdj[p].pc = "dump"
    /\ \E n \in PartialLens(Dump(gdj[p].token_info)) :
         fs' = [fs EXCEPT ![gdj[p].output_file] =
                    WriteAt0(@, SubSeq(Dump(gdj[p].token_info), 1, n))]
    /\ gdj' = [gdj EXCEPT ![p] = Return(@, PNone, "FailedToSave")]
    /\ UNCHANGED <<smp, runs>>

\* main, lines 159-160.
GdjExit(p) ==
    /\ gdj[p].pc = "returned"
    /\ gdj' = [gdj EXCEPT ![p].pc = "exit",
                          ![p].exit_code = IF ~Truthy(gdj[p].result) THEN 1 ELSE 0]
    /\ UNCHANGED <<fs, smp, runs>>

\* -------------------------------------- sample_jwt_sse_chat.py: loading
\* Mutant: `if access_token is None`.
LoadNoAccessToken_IsNone(access_token) == access_token = PNone
\* `if not access_token` (line 43)
LoadNoAccessToken(access_token) == ~Truthy(access_token)

\* Lines 38-51, on the file as it is when opened.  io is an OSError raised
\* by open or read, "" if none.
LoadJwtToken(file, io) ==
    IF io # "" THEN [err |-> "FailedToLoad", token |-> PNone]
    ELSE IF ~file.exists THEN [err |-> "FailedToLoad", token |-> PNone]
    ELSE LET json == Loads(file.text)
         IN IF json.exc # "none" THEN [err |-> "FailedToLoad", token |-> PNone]
            ELSE LET got == DictGet(json.v, S("access_token"), PNone)
                 IN IF got.exc # "none" THEN [err |-> "FailedToLoad", token |-> PNone]
                    ELSE IF LoadNoAccessToken(got.v)
                    THEN [err |-> "NoAccessToken", token |-> PNone]
                    ELSE [err |-> "", token |-> got.v]

\* asyncio.run(main()), line 119: the script begins.
SmpMain ==
    /\ NoScriptBetweenSteps
    /\ smp' = [SBlank EXCEPT !.pc = "exists"]
    /\ gdj' = [p \in Procs |-> GBlank]
    /\ UNCHANGED <<fs, runs>>

\* Lines 33-36.
SmpExists ==
    /\ smp.pc = "exists"
    /\ smp' = IF ~fs[TOKEN_FILE].exists
              THEN [smp EXCEPT !.pc = "exit", !.err = "NotFound", !.exit_code = 1]
              ELSE [smp EXCEPT !.pc = "read"]
    /\ UNCHANGED <<fs, gdj, runs>>

\* Lines 38-51.
SmpRead ==
    /\ smp.pc = "read"
    /\ \E io \in {"", "OSError"} :
         LET r == LoadJwtToken(fs[TOKEN_FILE], io)
         IN smp' = IF r.err # ""
                   THEN [smp EXCEPT !.pc = "exit", !.err = r.err, !.exc = io,
                                    !.exit_code = 1]
                   ELSE [smp EXCEPT !.pc = "info", !.token = r.token]
    /\ UNCHANGED <<fs, gdj, runs>>

\* Lines 96-102: main reads the file again for the e-mail and the tenant;
\* any exception is passed over, token_data then stays unset.
SmpInfo ==
    /\ smp.pc = "info"
    /\ LET json == Loads(fs[TOKEN_FILE].text)
       IN smp' = IF fs[TOKEN_FILE].exists /\ json.exc = "none" /\ json.v.t = "dict"
                 THEN [smp EXCEPT !.pc = "stream", !.token_data = json.v]
                 ELSE [smp EXCEPT !.pc = "stream"]
    /\ UNCHANGED <<fs, gdj, runs>>

\* ------------------------------------ sample_jwt_sse_chat.py: streaming
\* `if response.status_code != 200` (line 68), negated
StreamStatusOk(status_code) == status_code = 200
DataPrefix == <<"data:", " ">>
\* Mutant: the prefix is compared without regard to case.
StartsWithData_IgnoreCase(line) ==
    Len(line) >= Len(DataPrefix) /\ line[1] \in {"data:", "DATA:"} /\ line[2] = " "
\* line.startswith("data: ") (line 75)
StartsWithData(line) ==
    Len(line) >= Len(DataPrefix) /\ SubSeq(line, 1, Len(DataPrefix)) = DataPrefix
\* line[6:] (line 76)
Payload(line) == SubSeq(line, Len(DataPrefix) + 1, Len(line))
DoneText == <<"[", "DONE", "]">>
\* Mutant: the sentinel is compared with the whole line.
IsDone_WholeLine(data) == DataPrefix \o data = DoneText
\* data == "[DONE]" (line 77)
IsDone(data) == data = DoneText
\* except (json.JSONDecodeError, KeyError, IndexError) (line 85)
Caught(exc) == exc \in {"JSONDecodeError", "KeyError", "IndexError"}

\* Mutant: `if content is not None`.
HasContent_NotNone(content) == content # PNone
\* `if content:` (line 83)
HasContent(content) == Truthy(content)

\* chunk["choices"][0]["delta"].get("content", "") (line 82)
Content(chunk) ==
    LET choices == GetItemStr(chunk, S("choices"))
    IN IF choices.exc # "none" THEN choices
       ELSE LET first == GetItemInt(choices.v, 0)
            IN IF first.exc # "none" THEN first
               ELSE LET delta == GetItemStr(first.v, S("delta"))
                    IN IF delta.exc # "none" THEN delta
                       ELSE DictGet(delta.v, S("content"), PStr(<<>>))

\* The body of the loop, lines 75-86, for one line:
\*   ignore  the line is not a data line
\*   break   the sentinel
\*   skip    an exception of line 85, or content that is not truthy
\*   emit    content is printed
\*   raise   an exception line 85 does not name leaves the function
DecodeLine(line) ==
    IF ~StartsWithData(line) THEN [op |-> "ignore", content |-> PNone, exc |-> ""]
    ELSE IF IsDone(Payload(line)) THEN [op |-> "break", content |-> PNone, exc |-> ""]
    ELSE LET chunk == Loads(Payload(line))
             content == IF chunk.exc # "none" THEN chunk ELSE Content(chunk.v)
         IN IF content.exc # "none"
            THEN IF Caught(content.exc)
                 THEN [op |-> "skip", content |-> PNone, exc |-> content.exc]
                 ELSE [op |-> "raise", content |-> PNone, exc |-> content.exc]
            ELSE IF HasContent(content.v)
                 THEN [op |-> "emit", content |-> content.v, exc |-> ""]
                 ELSE [op |-> "skip", content |-> PNone, exc |-> ""]

\* An OpenAI-format chunk whose choices[0].delta is delta.
Chunk(delta) ==
    PDict(<<Item("choices", PList(<<PDict(<<Item("delta", delta)>>)>>))>>)
DataLine(text) == DataPrefix \o text
HiLine == DataLine(Dump(Chunk(PDict(<<Item("content", PStr(S("Hi")))>>))))
OkLine == DataLine(Dump(Chunk(PDict(<<Item("content", PStr(S("ok")))>>))))
DoneLine == DataLine(DoneText)
\* The lines a response body is made of.
Lines ==
    { HiLine, OkLine, DoneLine,
      DataLine(<<"not-json">>),
      <<>>,
      <<"event:", " ", "ping">>,
      <<"data:">> \o DoneText,
      <<"DATA:", " ">> \o DoneText,
      DataLine(Dump(PDict(<<>>))),
      DataLine(Dump(PDict(<<Item("choices", PList(<<>>))>>))),
      DataLine(Dump(PInt(42))),
      DataLine(Dump(PDict(<<Item("choices", PInt(5))>>))),
      DataLine(Dump(PDict(<<Item("choices", PList(<<PInt(1)>>))>>))),
      DataLine(Dump(Chunk(PNone))),
      DataLine(Dump(Chunk(PDict(<<Item("content", PStr(<<>>))>>)))),
      DataLine(Dump(Chunk(PDict(<<>>)))) }
RECURSIVE SeqsUpTo(_, _)
SeqsUpTo(set, n) ==
    IF n = 0 THEN {<<>>}
    ELSE LET shorter == SeqsUpTo(set, n - 1)
         IN shorter \cup {Append(q, e) : q \in shorter, e \in set}
Streams == SeqsUpTo(Lines, MaxLines)
StreamStatuses == {200, 401}
\* What the transport may raise while the response is opened or read.
StreamErrors == {"ReadError"}

\* Lines 66-71: the response head arrives; lines is its body.
SmpStreamOpen ==
    /\ smp.pc = "stream"
    /\ \E status_code \in StreamStatuses, lines \in Streams :
         smp' = IF ~StreamStatusOk(status_code)
                THEN [smp EXCEPT !.pc = "returned", !.status_code = status_code,
                                 !.lines = lines, !.err = "StreamError"]
                ELSE [smp EXCEPT !.pc = "lines", !.status_code = status_code,
                                 !.lines = lines]
    /\ UNCHANGED <<fs, gdj, runs>>

\* Lines 74-86: one turn of the loop.
SmpLine ==
    /\ smp.pc = "lines"
    /\ smp.pos < Len(smp.lines)
    /\ LET r == DecodeLine(smp.lines[smp.pos + 1])
       IN smp' = CASE r.op = "break" ->
                        [smp EXCEPT !.pc = "returned", !.pos = @ + 1]
                   [] r.op = "raise" ->
                        [smp EXCEPT !.pc = "exit", !.pos = @ + 1, !.exc = r.exc,
                                    !.exit_code = 1]
                   [] r.op = "emit" ->
                        [smp EXCEPT !.pos = @ + 1, !.out = Append(@, r.content)]
                   [] OTHER -> [smp EXCEPT !.pos = @ + 1]
    /\ UNCHANGED <<fs, gdj, runs>>

\* Mutant: the end of the body surfaces as an exception.
SmpEndOfInput_Raises ==
    /\ smp.pc = "lines"
    /\ smp.pos = Len(smp.lines)
    /\ smp' = [smp EXCEPT !.pc = "exit", !.exc = "StopAsyncIteration", !.exit_code = 1]
    /\ UNCHANGED <<fs, gdj, runs>>
\* Line 74: the body has ended, the loop and the function end.
SmpEndOfInput ==
    /\ smp.pc = "lines"
    /\ smp.pos = Len(smp.lines)
    /\ smp' = [smp EXCEPT !.pc = "returned"]
    /\ UNCHANGED <<fs, gdj, runs>>

\* Lines 67, 74: the transport raises (connection lost, read timeout);
\* nothing catches it.
SmpTransportError ==
    /\ smp.pc \in {"stream", "lines"}
    /\ \E e \in StreamErrors :
         smp' = [smp EXCEPT !.pc = "exit", !.exc = e, !.exit_code = 1]
    /\ UNCHANGED <<fs, gdj, runs>>

\* main, lines 115-116, and the end of asyncio.run(main()).
SmpComplete ==
    /\ smp.pc = "returned"
    /\ smp' = [smp EXCEPT !.pc = "exit", !.complete = TRUE, !.exit_code = 0]
    /\ UNCHANGED <<fs, gdj, runs>>

\* ------------------------------------------------------- specification
Init ==
    /\ fs \in {f \in [Paths -> InitialFiles] :
                 \A o \in Paths \ {TOKEN_FILE} : f[o] = NoFile}
    /\ gdj = [p \in Procs |-> GBlank]
    /\ smp = SBlank
    /\ runs = 0

\* The steps of an invocation that has begun.
GdjRun(p) ==
    \/ GdjGetEnv(p) \/ GdjGenerateKeys(p) \/ GdjPost(p)
    \/ GdjResponse(p) \/ GdjTransportError(p) \/ GdjCancelled(p)
    \/ GdjBuild(p) \/ GdjOpen(p) \/ GdjOpenFails(p) \/ GdjDump(p)
    \/ GdjDumpFails(p) \/ GdjExit(p)
Gdj(p) == GdjMain(p) \/ GdjRun(p)

Load == SmpMain \/ SmpExists \/ SmpRead \/ SmpInfo

\* The scripts run one after another: one get_dev_jwt.py process, and the
\* loading part of sample_jwt_sse_chat.py.
Next == Gdj(1) \/ Load
Spec == Init /\ [][Next]_vars

\* The streaming script alone, the token file being as get_dev_jwt.py left
\* it or absent.
InitStream ==
    /\ fs \in {f \in [Paths -> {NoFile, File(Dump(OldRecord))}] :
                 \A o \in Paths \ {TOKEN_FILE} : f[o] = NoFile}
    /\ gdj = [p \in Procs |-> GBlank]
    /\ smp = SBlank
    /\ runs = 0
Stream ==
    \/ SmpStreamOpen \/ SmpLine \/ SmpEndOfInput \/ SmpTransportError
    \/ SmpComplete
NextStream == Load \/ Stream
SpecStream == InitStream /\ [][NextStream]_vars
\* The same under the scheduling asyncio.run gives the coroutine: it is
\* resumed whenever the next line, or the end of the body, is there to read.
\* This is weak fairness of SmpLine and of SmpEndOfInput; that of SmpLine
\* is written with the action's enabling condition spelled out as its guard
\* (the action changes smp whenever the guard holds).  Bodies here are
\* shorter than MaxLines.
NextStreamFair == NextStream /\ Len(smp'.lines) < MaxLines
SpecStreamFair ==
    /\ InitStream /\ [][NextStreamFair]_vars
    /\ \/ []<>(~(smp.pc = "lines" /\ smp.pos < Len(smp.lines)))
       \/ []<><<SmpLine>>_vars
    /\ WF_vars(SmpEndOfInput)

\* Two get_dev_jwt.py processes started side by side (two shells) with the
\* same output path, nothing serialising them: both are past main's
\* argument parsing, and their steps interleave freely.  Each process has
\* its own file object, hence its own offset: open truncates the file, and
\* the text, buffered until the file is closed, is written at offset 0.
InitConc ==
    /\ fs \in {f \in [Paths -> {NoFile, File(Dump(OldRecord))}] :
                 \A o \in Paths \ {DEFAULT_OUTPUT} : f[o] = NoFile}
    /\ gdj \in [Procs -> {[GBlank EXCEPT !.pc = "env", !.email = e,
                                          !.output_file = DEFAULT_OUTPUT,
                                          !.before = fs[DEFAULT_OUTPUT]] :
                              e \in Emails}]
    /\ smp = SBlank
    /\ runs = Cardinality(Procs)
NextConc == \E p \in Procs : GdjRun(p)
SpecConc == InitConc /\ [][NextConc]_vars

\* ================================================================ claims
\* An access token that is absent or empty, as the statements below mean it.
EmptyToken(v) == v = PNone \/ v = PStr(<<>>)
\* The access_token of the JSON object a text holds.
AccessTokenOf(text) ==
    LET json == Loads(text)
    IN IF json.exc # "none" \/ json.v.t # "dict"
       THEN [kind |-> "not-object", v |-> PNone]
       ELSE IF ~HasKey(json.v.d, S("access_token"))
       THEN [kind |-> "absent", v |-> PNone]
       ELSE [kind |-> "present", v |-> Lookup(json.v.d, S("access_token"))]
Ended(g) == g.pc \in {"returned", "exit"}

\* C1: a registration response whose status is not 200 (401, or another
\* 2xx) makes get_dev_jwt_token return None; no token_info is built and the
\* output file is neither opened nor changed.
C1_Non200Fails ==
    \A p \in Procs :
        gdj[p].response.status_code \notin {0, 200} =>
            /\ Ended(gdj[p])
            /\ gdj[p].err = "RequestFailed"
            /\ gdj[p].result = PNone
            /\ gdj[p].token_info = PNone
            /\ gdj[p].opens = 0
            /\ fs[gdj[p].output_file] = gdj[p].before
            /\ gdj[p].pc = "exit" => gdj[p].exit_code = 1
C1_Witness ==
    \E p \in Procs :
        /\ gdj[p].pc = "exit"
        /\ gdj[p].response.status_code = 201
        /\ gdj[p].response.text \in TokenBodies
        /\ gdj[p].result = PNone

\* C2: a 200 response whose body is an object with no access_token, or an
\* empty one, ends in the "No access token" failure: None is returned and
\* nothing is written; a record exists only after a 200 response that
\* carries a non-empty access token, which the record holds.
C2_MissingToken ==
    \A p \in Procs :
        LET r == gdj[p].response
            t == AccessTokenOf(r.text)
        IN /\ (r.status_code = 200 /\ t.kind # "not-object" /\ EmptyToken(t.v)) =>
                /\ Ended(gdj[p])
                /\ gdj[p].err = "NoAccessToken"
                /\ gdj[p].result = PNone
                /\ gdj[p].token_info = PNone
                /\ gdj[p].opens = 0
                /\ fs[gdj[p].output_file] = gdj[p].before
           /\ (gdj[p].token_info # PNone \/ gdj[p].result # PNone) =>
                /\ r.status_code = 200
                /\ t.kind = "present"
                /\ ~EmptyToken(t.v)
                /\ gdj[p].access_token = t.v
C2_Witness ==
    \E p \in Procs :
        /\ gdj[p].pc = "exit"
        /\ gdj[p].response = [status_code |-> 200, text |-> Dump(PDict(<<>>))]
        /\ gdj[p].err = "NoAccessToken"
        /\ gdj[p].exit_code = 1

\* C3: whatever get_dev_jwt.py has written to a path, a record read from
\* it has a non-empty access_token; no record with an absent or empty
\* access_token is ever dumped.
C3_PersistedTokenNonEmpty ==
    \A o \in Paths :
        /\ fs[o].saved =>
             LET t == AccessTokenOf(fs[o].text)
             IN t.kind # "not-object" => (t.kind = "present" /\ ~EmptyToken(t.v))
        /\ fs[o].record # PNone =>
             ~EmptyToken(DictGet(fs[o].record, S("access_token"), PNone).v)
C3_Witness ==
    \E p \in Procs :
        /\ gdj[p].pc = "exit"
        /\ gdj[p].err = "NoAccessToken"
        /\ fs[gdj[p].output_file].saved
        /\ AccessTokenOf(fs[gdj[p].output_file].text).kind = "present"

\* The exchange of an ended invocation failed: no usable bootstrap secret,
\* an exception at the await (transport, timeout, cancellation), a status
\* other than 200, or a 200 body that is no object with a non-empty token.
ExchangeFailed(g) ==
    \/ g.dev_token \in {PNone, PStr(<<>>)}
    \/ g.err \in TransportErrors \cup Cancellations
    \/ /\ g.response.status_code # 0
       /\ \/ g.response.status_code # 200
          \/ AccessTokenOf(g.response.text).kind # "present"
          \/ EmptyToken(AccessTokenOf(g.response.text).v)

\* C4: when the exchange fails, for whichever reason, the output file is
\* never opened for writing and holds what it held before the invocation.
C4_FailedExchangeLeavesFile ==
    \A p \in Procs :
        (Ended(gdj[p]) /\ ExchangeFailed(gdj[p])) =>
            /\ gdj[p].opens = 0
            /\ fs[gdj[p].output_file] = gdj[p].before
            /\ gdj[p].result = PNone
            /\ gdj[p].token_info = PNone
C4_Witness ==
    \E p \in Procs :
        /\ gdj[p].pc = "exit"
        /\ gdj[p].err = "ReadTimeout"
        /\ gdj[p].before = File(Dump(OldRecord))
        /\ fs[gdj[p].output_file] = File(Dump(OldRecord))

\* C5: decoding stops at the first `data: [DONE]` line: no line after it
\* is read, the loop has ended once it is read, and every delta printed
\* comes from a line before it (`Hi` then [DONE] prints exactly "Hi").
C5_StopsAtDone ==
    \A d \in 1..Len(smp.lines) :
        (/\ smp.status_code = 200
         /\ smp.lines[d] = DoneLine
         /\ \A j \in 1..(d - 1) : smp.lines[j] # DoneLine) =>
            /\ smp.pos <= d
            /\ smp.pos = d => smp.pc \in {"returned", "exit"}
            /\ Len(smp.out) <= d - 1
            /\ (smp.pos = d /\ SubSeq(smp.lines, 1, d) = <<HiLine, DoneLine>>) =>
                   smp.out = <<PStr(S("Hi"))>>
C5_Witness ==
    /\ smp.lines = <<HiLine, DoneLine, OkLine>>
    /\ smp.complete
    /\ smp.pos = 2
    /\ smp.out = <<PStr(S("Hi"))>>

\* C6: a data line whose payload is not JSON, or whose JSON lacks
\* choices[0].delta.content or has it in the wrong shape, is skipped and
\* decoding goes on: a stream is only ever ended by [DONE], by the end of
\* the input or by the transport, never by an event.
C6_MalformedEventsSkipped ==
    (/\ smp.status_code = 200
     /\ smp.pc \in {"returned", "exit"}
     /\ smp.exc \notin StreamErrors) =>
        /\ smp.exc = ""
        /\ \/ smp.pos = Len(smp.lines)
           \/ smp.pos >= 1 /\ smp.lines[smp.pos] = DoneLine

\* C7: when the response that opens the stream is not a 200, no line is
\* read, no delta is printed, and the script does not end as a completed
\* stream does: it does not print "Complete" and does not exit with 0.
C7_Non200IsHardFailure ==
    smp.status_code \notin {0, 200} =>
        /\ smp.pos = 0
        /\ smp.out = <<>>
        /\ ~smp.complete
        /\ smp.pc = "exit" => smp.exit_code # 0

\* C8: a record saved to a path is read back from it equal in every field,
\* whatever the path held before; the loading script gets that record and
\* its access token.
C8_SaveLoadRoundTrip ==
    /\ \A o \in Paths :
         fs[o].record # PNone => Loads(fs[o].text) = Ok(fs[o].record)
    /\ \A p \in Procs :
         (Ended(gdj[p]) /\ gdj[p].result # PNone) =>
             fs[gdj[p].output_file].record = gdj[p].result
    /\ (fs[TOKEN_FILE].record # PNone /\ smp.pc = "stream") =>
         /\ smp.token_data = fs[TOKEN_FILE].record
         /\ smp.token = Lookup(fs[TOKEN_FILE].record.d, S("access_token"))
C8_Witness ==
    /\ smp.pc = "stream"
    /\ fs[TOKEN_FILE].record # PNone
    /\ smp.token_data = fs[TOKEN_FILE].record
    /\ Lookup(smp.token_data.d, S("device_keys")) =
           PDict(<<Item("private_key_pem", private_key_pem(1)),
                   Item("public_key_pem", public_key_pem(1)),
                   Item("public_key_b64", public_key_b64(1))>>)

\* C9: load_jwt_token ends in "not found" when the file does not exist, in
\* "No access_token" when the file holds an object with no or an empty
\* access_token, in "Failed to load" when the text is not JSON or not an
\* object; each exits with 1 and returns nothing.  A token is returned only
\* from an existing file holding an object with a non-empty access_token,
\* and is that token.
C9_LoadOutcomes ==
    LET f == fs[TOKEN_FILE]
        t == AccessTokenOf(f.text)
        failed == smp.pc = "exit" /\ smp.exit_code = 1 /\ smp.token = PNone
    IN smp.pc \notin {"none", "exists", "read"} =>
         /\ ~f.exists => (smp.err = "NotFound" /\ failed)
         /\ (f.exists /\ smp.exc # "OSError" /\ t.kind = "not-object") =>
                (smp.err = "FailedToLoad" /\ failed)
         /\ (f.exists /\ smp.exc # "OSError" /\ t.kind # "not-object"
                /\ EmptyToken(t.v)) =>
                (smp.err = "NoAccessToken" /\ failed)
         /\ smp.err \in {"NotFound", "FailedToLoad", "NoAccessToken"} => failed
         /\ smp.token # PNone =>
                (f.exists /\ t.kind = "present" /\ ~EmptyToken(t.v) /\ smp.token = t.v)
         /\ smp.pc \in {"info", "stream"} => smp.token # PNone
C9_Witness ==
    /\ smp.pc = "exit"
    /\ smp.err = "NoAccessToken"
    /\ fs[TOKEN_FILE].text = Dump(PDict(<<Item("email", PStr(DEFAULT_EMAIL))>>))

\* Lines that do not begin with `data: `.
NonDataLines ==
    { <<>>, <<"event:", " ", "ping">>, <<"data:">> \o DoneText,
      <<"DATA:", " ">> \o DoneText }
\* C10: reading a line that does not begin with `data: ` prints nothing and
\* leaves the loop running, [DONE] in the line or not.
C10_NonDataLinesIgnored ==
    [][(/\ smp.pc = "lines"
        /\ smp.pos < Len(smp.lines)
        /\ smp'.pos = smp.pos + 1
        /\ smp.lines[smp.pos + 1] \in NonDataLines) =>
           (smp'.out = smp.out /\ smp'.pc = "lines" /\ smp'.exc = "")]_vars
C10_Witness ==
    /\ smp.lines = << <<"DATA:", " ">> \o DoneText, <<"data:">> \o DoneText, HiLine >>
    /\ smp.complete
    /\ smp.pos = 3
    /\ smp.out = <<PStr(S("Hi"))>>

\* Well-formed events that carry no text: content is the empty string, or
\* delta has no content key.
EmptyContentLine == DataLine(Dump(Chunk(PDict(<<Item("content", PStr(<<>>))>>))))
NoContentLine == DataLine(Dump(Chunk(PDict(<<>>))))
\* C11: no empty delta is ever printed: reading an event whose content is
\* the empty string, or whose delta has no content key, prints nothing and
\* leaves the loop running, and nothing printed is an empty string.
C11_NoEmptyDelta ==
    [][/\ (/\ smp.pc = "lines"
            /\ smp.pos < Len(smp.lines)
            /\ smp'.pos = smp.pos + 1
            /\ smp.lines[smp.pos + 1] \in {EmptyContentLine, NoContentLine}) =>
               (smp'.out = smp.out /\ smp'.pc = "lines" /\ smp'.exc = "")
       /\ \A i \in 1..Len(smp'.out) : smp'.out[i] # PStr(<<>>)]_vars
C11_Witness ==
    /\ smp.lines = <<EmptyContentLine, NoContentLine, OkLine>>
    /\ smp.complete
    /\ smp.pos = 3
    /\ smp.out = <<PStr(S("ok"))>>

\* C12: a body that ends without [DONE] ends the loop without error: once
\* every line is read the function returns, nothing more being printed; an
\* empty body prints nothing; and the loop, once entered, always ends.
C12_EndOfInputTerminates ==
    /\ [][(/\ smp.pc = "lines"
            /\ smp.pos = Len(smp.lines)
            /\ smp'.exc \notin StreamErrors) =>
               (smp'.pc = "returned" /\ smp'.exc = "" /\ smp'.out = smp.out)]_vars
    /\ []((smp.status_code = 200 /\ smp.lines = <<>>) =>
             (smp.out = <<>> /\ smp.pos = 0 /\ smp.exc \in {""} \cup StreamErrors))
    /\ (smp.pc = "lines") ~> (smp.pc \in {"returned", "exit"})
C12_Witness ==
    /\ smp.status_code = 200
    /\ smp.lines = <<>>
    /\ smp.complete
    /\ smp.exit_code = 0
    /\ smp.out = <<>>

\* C13: an invocation whose bootstrap secret is set and not empty sends
\* exactly one POST, whatever the request ends in (a record, a status other
\* than 200, no token, a body that is no JSON object, a transport error, a
\* timeout, a cancellation, a failed save); one whose secret is unset or
\* empty sends none.  No request is ever sent twice.
C13_ExactlyOnePost ==
    \A p \in Procs :
        /\ gdj[p].posts <= 1
        /\ gdj[p].dev_token \in {PNone, PStr(<<>>)} => gdj[p].posts = 0
        /\ (Ended(gdj[p]) /\ gdj[p].dev_token \notin {PNone, PStr(<<>>)}) =>
               gdj[p].posts = 1
        /\ gdj[p].response # NoResponse => gdj[p].posts = 1
C13_Witness ==
    \E p \in Procs :
        /\ gdj[p].pc = "exit"
        /\ gdj[p].dev_token = PStr(S("p8fs-dev"))
        /\ gdj[p].err = "ConnectError"
        /\ gdj[p].posts = 1
        /\ gdj[p].exit_code = 1

\* Both processes have ended with their record saved to path o.
SavesCompleted(o) ==
    \A p \in Procs :
        gdj[p].pc = "exit" /\ gdj[p].output_file = o /\ gdj[p].result # PNone
\* C14: once two concurrent saves to one path have both completed, the
\* file holds exactly the record of the process that wrote last, which is
\* the full record of one of the two, never a mix of the two texts.
C14_LastWriterWins ==
    \A o \in Paths :
        SavesCompleted(o) =>
            /\ fs[o].text = Dump(fs[o].record)
            /\ \E p \in Procs : fs[o].record = gdj[p].result
            /\ Loads(fs[o].text) = Ok(fs[o].record)

\* choices[0].delta.content of the JSON object a data line carries; PNone
\* when the payload is no JSON or has no such path.
ContentOf(line) ==
    LET json == Loads(SubSeq(line, 3, Len(line)))
    IN IF json.exc # "none" \/ json.v.t # "dict" \/ ~HasKey(json.v.d, S("choices"))
       THEN PNone
       ELSE LET choices == Lookup(json.v.d, S("choices"))
            IN IF choices.t # "list" \/ choices.l = <<>> THEN PNone
               ELSE IF choices.l[1].t # "dict" \/ ~HasKey(choices.l[1].d, S("delta"))
               THEN PNone
               ELSE LET delta == Lookup(choices.l[1].d, S("delta"))
                    IN IF delta.t # "dict" \/ ~HasKey(delta.d, S("content"))
                       THEN PNone
                       ELSE Lookup(delta.d, S("content"))
RECURSIVE ExpectedDeltas(_)
\* The non-empty contents of the well-formed data lines before the first
\* `data: [DONE]`, in order.
ExpectedDeltas(lines) ==
    IF lines = <<>> \/ lines[1] = <<"data:", " ", "[", "DONE", "]">> THEN <<>>
    ELSE LET isData == Len(lines[1]) >= 2 /\ lines[1][1] = "data:" /\ lines[1][2] = " "
             c == IF isData THEN ContentOf(lines[1]) ELSE PNone
         IN (IF c.t = "str" /\ c.s # <<>> THEN <<c>> ELSE <<>>)
                \o ExpectedDeltas(Tail(lines))
\* C15: when decoding of a body has ended (the transport not having
\* failed), what was printed is exactly the non-empty contents of the
\* well-formed data lines before the first [DONE], or of all of them when
\* there is none, in their order.
C15_DeltasAreTheContents ==
    (/\ smp.status_code = 200
     /\ smp.pc \in {"returned", "exit"}
     /\ smp.exc \notin StreamErrors) =>
        smp.out = ExpectedDeltas(smp.lines)

\* C16: the expires_in of every record the script has saved is an integer
\* >= 0, whatever the registration response gave for it (a negative
\* number, null), and is 3600 when the response gave none.
C16_ExpiresInNonNegative ==
    /\ \A o \in Paths :
         fs[o].record # PNone =>
             LET expires_in == Lookup(fs[o].record.d, S("expires_in"))
             IN expires_in.t = "int" /\ expires_in.n >= 0
    /\ \A p \in Procs :
         (gdj[p].result # PNone /\ ~HasKey(gdj[p].token_data.d, S("expires_in"))) =>
             Lookup(gdj[p].result.d, S("expires_in")) = PInt(3600)

\* C17: a save that fails, at open or after the file was opened, makes
\* get_dev_jwt_token return None and the script exit with 1; the record is
\* returned and the script exits with 0 only when the output path holds
\* the whole record.
C17_SaveFailureIsFailure ==
    \A p \in Procs :
        LET g == gdj[p]
            f == fs[g.output_file]
        IN /\ g.err = "FailedToSave" =>
                /\ Ended(g)
                /\ g.result = PNone
                /\ g.pc = "exit" => g.exit_code = 1
           /\ (g.result # PNone \/ g.exit_code = 0) =>
                /\ g.err = ""
                /\ g.result = g.token_info
                /\ g.result # PNone
                /\ f.exists
                /\ f.text = Dump(g.result)
                /\ f.record = g.result
           /\ (g.pc = "exit" /\ g.result # PNone) => g.exit_code = 0
C17_Witness ==
    \E p \in Procs :
        /\ gdj[p].pc = "exit"
        /\ gdj[p].err = "FailedToSave"
        /\ gdj[p].opens = 1
        /\ fs[gdj[p].output_file].text # <<>>
        /\ gdj[p].result = PNone
        /\ gdj[p].exit_code = 1

\* C18: a file the script opened for writing and did not write to the end
\* never loads: load_jwt_token exits with 1 on it ("Failed to load" or "No
\* access_token") and returns no token, wherever the text was cut; a
\* token loaded from a file the script wrote is the token of a record
\* whose dump ran to its end.
C18_PartialFileNeverLoads ==
    LET f == fs[TOKEN_FILE]
    IN /\ (f.saved /\ f.record = PNone /\ smp.pc \notin {"none", "exists", "read"}) =>
            /\ smp.pc = "exit"
            /\ smp.exit_code = 1
            /\ smp.token = PNone
            /\ smp.err \in {"FailedToLoad", "NoAccessToken"}
       /\ (f.saved /\ smp.token # PNone) =>
            /\ f.record # PNone
            /\ f.text = Dump(f.record)
            /\ smp.token = Lookup(f.record.d, S("access_token"))
       /\ \A p \in Procs :
            gdj[p].pc = "dump" =>
                \A n \in 0..(Len(Dump(gdj[p].token_info)) - 1) :
                    LoadJwtToken(File(SubSeq(Dump(gdj[p].token_info), 1, n)), "").err # ""
C18_Witness ==
    /\ smp.pc = "exit"
    /\ smp.err = "FailedToLoad"
    /\ smp.exit_code = 1
    /\ fs[TOKEN_FILE].saved
    /\ fs[TOKEN_FILE].record = PNone
    /\ fs[TOKEN_FILE].text # <<>>
====
